---- MODULE Spec2Model ----
(***************************************************************************)
(* Model of backend/predict.py: the batch pipeline main() that reads a     *)
(* table of SMILES strings, computes six descriptors per row               *)
(* (calculate_descriptors), loads the scaler and the model (load_models),  *)
(* predicts, joins the predictions back onto the input rows and prints     *)
(* either a JSON array or an error object.                                 *)
(*                                                                         *)
(* Numbers: passthrough numbers and predictions are fixed-point integers   *)
(* in units of 10^-7 (seven fractional digits), so that the six-digit      *)
(* rendering of to_json(double_precision=6) is a visible conversion.       *)
(* Descriptor values are integers in their own units (MolWt in 10^-3,      *)
(* LogP in 10^-4, counts as they are, AromaticProportion in 10^-6).        *)
(***************************************************************************)
EXTENDS Integers, Sequences, FiniteSets, TLC

VARIABLES
    pc,               \* position of main()
    argc,             \* len(sys.argv)
    input_df,         \* the table read by pd.read_csv
    faults,           \* per row: which toolkit call raises on that row's molecule (0: none)
    idx,              \* loop variable of calculate_descriptors
    descriptors_data, \* the six lists of calculate_descriptors
    valid_indices,    \* list of row indices whose six fields were appended
    descriptors_df,   \* the frame returned by calculate_descriptors
    artifacts,        \* the artifact files on disk; whether load_models checked and loaded them
    predictions,      \* model.predict's result
    result_df,        \* input_df.loc[...] plus the prediction column
    calls,            \* the pipeline calls main() has made so far
    exc,              \* the exception in flight to main()'s handler
    stdout,           \* what was printed on standard output
    exitCode,         \* the process's exit code (Running until it ends)
    log               \* the logger's records

vars == <<pc, argc, input_df, faults, idx, descriptors_data, valid_indices,
          descriptors_df, artifacts, predictions, result_df, calls, exc,
          stdout, exitCode, log>>

\* Largest number of data rows of an input table.
MaxRows == 3

-----------------------------------------------------------------------------
(* Cell values of a table: a string, a number or pandas' NaN; and the      *)
(* integer labels of a row index.                                           *)

Str(s) == [t |-> "str", s |-> s, v |-> 0]
Num(v) == [t |-> "num", s |-> "", v |-> v]
NaN == [t |-> "nan", s |-> "", v |-> 0]
IntLabel(i) == [t |-> "int", s |-> "", v |-> i]

\* pd.isna(smiles)
IsNa(cell) == cell.t = "nan"

\* str.strip() on the strings of the input alphabet
Strip(s) ==
    IF s = "  " THEN "" ELSE s

\* A descriptor value, or None/NaN
Some(v) == [ok |-> TRUE, v |-> v]
Missing == [ok |-> FALSE, v |-> 0]

Fields == <<"MolWt", "LogP", "NumRotatableBonds", "NumHDonors",
            "NumHAcceptors", "AromaticProportion">>
FieldSet == {Fields[k] : k \in 1..Len(Fields)}

PredCol == "Predicted_log_solubility_mol_per_L"

-----------------------------------------------------------------------------
(* The chemistry toolkit at its interface: parsing and the descriptors of   *)
(* the molecules of the input alphabet.                                     *)

NoMol == [ok |-> FALSE, MolWt |-> 0, LogP |-> 0, NumRotatableBonds |-> 0,
          NumHDonors |-> 0, NumHAcceptors |-> 0, aromatic |-> 0, heavy |-> 0]

\* Chem.MolFromSmiles: None for a string that is no structure
MolFromSmiles(s) ==
    CASE s = "CCO" ->
           [ok |-> TRUE, MolWt |-> 46069, LogP |-> -14, NumRotatableBonds |-> 0,
            NumHDonors |-> 1, NumHAcceptors |-> 1, aromatic |-> 0, heavy |-> 3]
      [] s = "c1ccccc1" ->
           [ok |-> TRUE, MolWt |-> 78114, LogP |-> 16866, NumRotatableBonds |-> 0,
            NumHDonors |-> 0, NumHAcceptors |-> 0, aromatic |-> 6, heavy |-> 6]
      [] s = "Cc1ccccc1" ->
           [ok |-> TRUE, MolWt |-> 92141, LogP |-> 19950, NumRotatableBonds |-> 0,
            NumHDonors |-> 0, NumHAcceptors |-> 0, aromatic |-> 6, heavy |-> 7]
      [] s = "[H][H]" ->
           [ok |-> TRUE, MolWt |-> 2016, LogP |-> 0, NumRotatableBonds |-> 0,
            NumHDonors |-> 0, NumHAcceptors |-> 0, aromatic |-> 0, heavy |-> 0]
      [] OTHER -> NoMol

\* get_aromatic_proportion(mol); raises is whether the toolkit raised inside it
get_aromatic_proportion_divzero(mol, raises) ==
    IF raises \/ mol.heavy = 0 THEN Missing
    ELSE Some((mol.aromatic * 1000000) \div mol.heavy)

get_aromatic_proportion(mol, raises) ==
    IF raises THEN Missing
    ELSE IF mol.heavy > 0 THEN Some((mol.aromatic * 1000000) \div mol.heavy)
    ELSE Some(0)

\* The value the k-th descriptor computation appends (k = 6: aromatic proportion)
DescriptorValue(mol, k, fault) ==
    CASE k = 1 -> Some(mol.MolWt)
      [] k = 2 -> Some(mol.LogP)
      [] k = 3 -> Some(mol.NumRotatableBonds)
      [] k = 4 -> Some(mol.NumHDonors)
      [] k = 5 -> Some(mol.NumHAcceptors)
      [] OTHER -> get_aromatic_proportion(mol, fault = 6)

-----------------------------------------------------------------------------
(* pandas at its interface.                                                 *)

\* The positions 0..n-1 that enumerate(smiles_list) counts
RangeIndex(n) == [p \in 1..n |-> p - 1]

\* The index read_csv gives a table whose data rows have as many fields as
\* the header: the labels 0..n-1
DefaultIndex(n) == [p \in 1..n |-> IntLabel(p - 1)]

Positions(n) == [p \in 1..n |-> p]

\* The six lists of calculate_descriptors, empty
EmptyData == [f \in FieldSet |-> <<>>]

EmptyFrame == [index |-> <<>>, recs |-> <<>>]

EmptyTable == [columns |-> {}, index |-> <<>>, data |-> <<>>]

\* pd.DataFrame(dict of lists) raises ValueError unless all lists have one length
SameLength(data) == \A f, g \in FieldSet : Len(data[f]) = Len(data[g])

\* pd.DataFrame(descriptors_data) followed by descriptors_df.index = valid_indices
DataFrame(data, index) ==
    [index |-> index,
     recs  |-> [p \in 1..Len(index) |-> [f \in FieldSet |-> data[f][p]]]]

Complete(rec) == \A f \in FieldSet : rec[f].ok

\* descriptors_df.dropna(): the rows without a missing value, in order
DropNa(df) ==
    LET kept == SelectSeq(Positions(Len(df.index)), LAMBDA p : Complete(df.recs[p]))
    IN  [index |-> [q \in 1..Len(kept) |-> df.index[kept[q]]],
         recs  |-> [q \in 1..Len(kept) |-> df.recs[kept[q]]]]

\* The positions input_df.loc[labels] selects: for each requested label in
\* turn, every row of the table that carries it, in table order
RECURSIVE LocPositions(_, _)
LocPositions(index, labels) ==
    IF labels = <<>> THEN <<>>
    ELSE SelectSeq(Positions(Len(index)), LAMBDA p : index[p] = IntLabel(Head(labels)))
             \o LocPositions(index, Tail(labels))

\* input_df.loc[labels] raises KeyError when a requested label is not in the index
LocRaises(df, labels) ==
    \E q \in 1..Len(labels) : \A p \in 1..Len(df.index) : df.index[p] # IntLabel(labels[q])

\* input_df.loc[labels].copy(): the rows that carry these labels
Loc(df, labels) ==
    LET pos == LocPositions(df.index, labels)
    IN  [columns |-> df.columns,
         index   |-> [q \in 1..Len(pos) |-> df.index[pos[q]]],
         data    |-> [q \in 1..Len(pos) |-> df.data[pos[q]]]]

\* result_df[col] = values: sets (adds or overwrites) the column, by position
SetColumn(df, col, values) ==
    [columns |-> df.columns \cup {col},
     index   |-> df.index,
     data    |-> [q \in 1..Len(df.data) |->
                    [c \in df.columns \cup {col} |->
                        IF c = col THEN Num(values[q]) ELSE df.data[q][c]]]]

Abs(n) == IF n < 0 THEN -n ELSE n

\* A number of seven fractional digits rendered with six (double_precision=6):
\* rounded to the nearest, and kept in units of 10^-7
Round6(n) ==
    LET q == Abs(n) \div 10
        r == Abs(n) % 10
        up == r > 5 \/ (r = 5 /\ q % 2 = 1)
        m == (IF up THEN q + 1 ELSE q) * 10
    IN  IF n < 0 THEN -m ELSE m

JsonValue(cell) == IF cell.t = "num" THEN Num(Round6(cell.v)) ELSE cell

\* result_df.to_json(orient='records', double_precision=6)
ToJson(df) ==
    [q \in 1..Len(df.data) |-> [c \in df.columns |-> JsonValue(df.data[q][c])]]

-----------------------------------------------------------------------------
(* The two artifacts at their interface: a row-wise transform and a         *)
(* row-wise predictor.                                                      *)

ScalerTransform(rec) ==
    [f \in FieldSet |-> IF f = "MolWt" THEN rec[f].v - 50000 ELSE rec[f].v]

\* A prediction in units of 10^-7
ModelPredict(x) ==
    5000003 - 123 * x["MolWt"] - 7 * x["LogP"] - x["AromaticProportion"]
      - 11 * x["NumHDonors"]

-----------------------------------------------------------------------------------------------------------------------------------------------------
(* Inputs: the data rows of the CSV file. Each row is the text of its      *)
(* SMILES field, the text of its passthrough field, and the toolkit call   *)
(* that raises on its molecule (0: none, 1..5: the k-th descriptor, 6:     *)
(* inside get_aromatic_proportion).                                         *)

R(s, e, k) == [smiles |-> s, extra |-> e, fault |-> k]

RowInputs ==
    { R("", "0.5", 0),
      R("  ", "w", 0),
      R("invalid_garbage", "3.0", 0),
      R("CCO", "0.1234567", 0),
      R("c1ccccc1", "2.5", 0),
      R("[H][H]", "h", 0) }
    \cup { R("Cc1ccccc1", "4.0", k) : k \in 1..6 }

RowSeqs == UNION { [1..n -> RowInputs] : n \in 0..MaxRows }

\* Data rows whose SMILES field is a numeral or empty: read_csv types such a
\* SMILES column as numbers
NumeralRowInputs == { R("1.0", "n", 0), R("", "0.5", 0) }

NumeralRowSeqs == UNION { [1..n -> NumeralRowInputs] : n \in 1..MaxRows }

\* The column sets of the input tables: SMILES and a passthrough column, a
\* passthrough column that has the prediction's name, or no SMILES column
ColumnSets == { {"SMILES", "Name"}, {"SMILES", PredCol}, {"Name"} }

\* The number a field's text denotes (units of 10^-7), for the numeric texts
\* of the input alphabet
ParseNumber(text) ==
    CASE text = "0.5" -> Some(5000000)
      [] text = "3.0" -> Some(30000000)
      [] text = "0.1234567" -> Some(1234567)
      [] text = "2.5" -> Some(25000000)
      [] text = "4.0" -> Some(40000000)
      [] text = "1.0" -> Some(10000000)
      [] OTHER -> Missing

\* read_csv types a column as a whole: numbers when every field is a number or
\* empty, strings otherwise; an empty field is NaN either way
ColumnCells(texts) ==
    LET numeric == \A p \in 1..Len(texts) : texts[p] = "" \/ ParseNumber(texts[p]).ok
    IN  [p \in 1..Len(texts) |->
            IF texts[p] = "" THEN NaN
            ELSE IF numeric THEN Num(ParseNumber(texts[p]).v)
            ELSE Str(texts[p])]

\* The decimal text of a small natural number
IntText(i) ==
    CASE i = 0 -> "0" [] i = 1 -> "1" [] i = 2 -> "2" [] i = 3 -> "3" [] i = 4 -> "4"
      [] i = 5 -> "5" [] i = 6 -> "6" [] i = 7 -> "7" [] i = 8 -> "8" [] OTHER -> "9"

\* The leading fields of data rows that are one field longer than the header:
\* the row numbers counted down, the same number on every row, or a word
LeadKinds == {"reversed", "same", "word"}

LeadFields(kind, n) ==
    [p \in 1..n |->
        CASE kind = "reversed" -> IntText(n - p)
          [] kind = "same" -> "0"
          [] OTHER -> "x"]

\* read_csv (index_col=None) takes the leading fields as the index, integers
\* when every one is an integer
ImplicitIndex(lead) ==
    LET ints == \A p \in 1..Len(lead) : \E i \in 0..9 : IntText(i) = lead[p]
    IN  [p \in 1..Len(lead) |->
            IF ints THEN IntLabel(CHOOSE i \in 0..9 : IntText(i) = lead[p])
            ELSE Str(lead[p])]

\* The table pd.read_csv returns for these columns, data rows and index
Table(cols, rs, index) ==
    LET smiles == ColumnCells([p \in 1..Len(rs) |-> rs[p].smiles])
        extra  == ColumnCells([p \in 1..Len(rs) |-> rs[p].extra])
    IN  [columns |-> cols,
         index   |-> index,
         data    |-> [p \in 1..Len(rs) |->
                        [c \in cols |-> IF c = "SMILES" THEN smiles[p] ELSE extra[p]]]]

-----------------------------------------------------------------------------
NoExc == [type |-> "", msg |-> ""]

Raise(type, msg) ==
    /\ exc' = [type |-> type, msg |-> msg]
    /\ pc' = "except"

L(level, msg, n) == [level |-> level, msg |-> msg, n |-> n]

\* The artifact files random_forest_model.pkl and scaler.pkl, present or absent
\* on disk, before load_models has looked
ArtifactStates ==
    { [modelExists |-> m, scalerExists |-> sc, checked |-> FALSE, loaded |-> FALSE] :
        m \in BOOLEAN, sc \in BOOLEAN }

Init ==
    /\ pc = "start"
    /\ argc \in 1..3
    /\ input_df = EmptyTable
    /\ faults = <<>>
    /\ idx = 0
    /\ descriptors_data = EmptyData
    /\ valid_indices = <<>>
    /\ descriptors_df = EmptyFrame
    /\ artifacts \in ArtifactStates
    /\ predictions = <<>>
    /\ result_df = EmptyTable
    /\ calls = {}
    /\ exc = NoExc
    /\ stdout = <<>>
    /\ exitCode = <<>>
    /\ log = <<>>

\* main, lines 103-107
ValidateArgs ==
    /\ pc = "start"
    /\ IF argc # 2
       THEN Raise("ValueError", "Usage: python predict.py <input_csv_file>")
       ELSE pc' = "check_file" /\ exc' = exc
    /\ UNCHANGED <<argc, input_df, faults, idx, descriptors_data, valid_indices,
                   descriptors_df, artifacts, predictions, result_df, calls,
                   stdout, exitCode, log>>

\* main, lines 109-113
ValidateInputFile ==
    /\ pc = "check_file"
    /\ \E exists \in BOOLEAN :
         IF ~exists
         THEN Raise("FileNotFoundError", "Input file not found") /\ log' = log
         ELSE /\ pc' = "read_csv"
              /\ exc' = exc
              /\ log' = Append(log, L("info", "Processing input file", 0))
    /\ UNCHANGED <<argc, input_df, faults, idx, descriptors_data, valid_indices,
                   descriptors_df, artifacts, predictions, result_df, calls,
                   stdout, exitCode>>

\* main, lines 115-119
ReadCsv ==
    /\ pc = "read_csv"
    /\ \/ /\ Raise("ValueError", "Error reading CSV file")
          /\ UNCHANGED <<input_df, faults>>
       \/ \E cols \in ColumnSets, rs \in RowSeqs \cup NumeralRowSeqs :
            /\ "SMILES" \notin cols => \A p \in 1..Len(rs) : rs[p] = R("CCO", "0.1234567", 0)
            /\ input_df' = Table(cols, rs, DefaultIndex(Len(rs)))
            /\ faults' = [p \in 1..Len(rs) |-> rs[p].fault]
            /\ pc' = "validate_csv"
            /\ exc' = exc
       \/ \E rs \in RowSeqs, kind \in LeadKinds :
            /\ Len(rs) > 0
            /\ input_df' = Table({"SMILES", "Name"}, rs, ImplicitIndex(LeadFields(kind, Len(rs))))
            /\ faults' = [p \in 1..Len(rs) |-> rs[p].fault]
            /\ pc' = "validate_csv"
            /\ exc' = exc
    /\ UNCHANGED <<argc, idx, descriptors_data, valid_indices, descriptors_df,
                   artifacts, predictions, result_df, calls, stdout, exitCode, log>>

\* A validation that lets an empty table through
ValidateCsvNoEmptyCheck ==
    /\ pc = "validate_csv"
    /\ IF "SMILES" \notin input_df.columns
       THEN /\ Raise("ValueError", "Input CSV must contain a 'SMILES' column")
            /\ UNCHANGED <<log, calls>>
       ELSE /\ pc' = "extract"
            /\ exc' = exc
            /\ log' = Append(log, L("info", "Loaded rows from input file", Len(input_df.data)))
            /\ calls' = calls \cup {"calculate_descriptors"}
    /\ UNCHANGED <<argc, input_df, faults, idx, descriptors_data, valid_indices,
                   descriptors_df, artifacts, predictions, result_df, stdout, exitCode>>

\* main, lines 121-132: the validation, then the call of calculate_descriptors
ValidateCsv ==
    /\ pc = "validate_csv"
    /\ IF "SMILES" \notin input_df.columns
       THEN /\ Raise("ValueError", "Input CSV must contain a 'SMILES' column")
            /\ UNCHANGED <<log, calls>>
       ELSE IF Len(input_df.data) = 0
       THEN /\ Raise("ValueError", "Input CSV is empty")
            /\ UNCHANGED <<log, calls>>
       ELSE /\ pc' = "extract"
            /\ exc' = exc
            /\ log' = Append(log, L("info", "Loaded rows from input file", Len(input_df.data)))
            /\ calls' = calls \cup {"calculate_descriptors"}
    /\ UNCHANGED <<argc, input_df, faults, idx, descriptors_data, valid_indices,
                   descriptors_df, artifacts, predictions, result_df, stdout, exitCode>>

-----------------------------------------------------------------------------
(* calculate_descriptors: one step per iteration of its loop.               *)

NumRows == Len(input_df.data)

\* smiles_list[idx] and the toolkit's behaviour on it
CurSmiles == input_df.data[idx + 1]["SMILES"]
CurFault == faults[idx + 1]
\* line 40: smiles.strip() raises AttributeError on a cell that is neither NaN
\* nor a string (pd.isna is evaluated first)
CurStripRaises == ~IsNa(CurSmiles) /\ CurSmiles.t # "str"
CurEmpty == IsNa(CurSmiles) \/ (CurSmiles.t = "str" /\ Strip(CurSmiles.s) = "")
CurMol == MolFromSmiles(Strip(CurSmiles.s))

FieldPos(f) == CHOOSE k \in 1..Len(Fields) : Fields[k] = f

\* The appends of lines 51-56 that ran before the call number `stop` raised
\* (stop = 7: all six ran)
AppendBefore(data, mol, fault, stop) ==
    [f \in FieldSet |->
        IF FieldPos(f) < stop
        THEN Append(data[f], DescriptorValue(mol, FieldPos(f), fault))
        ELSE data[f]]

InLoop == pc = "extract" /\ idx < NumRows

\* lines 40-42
RowEmpty ==
    /\ InLoop
    /\ CurEmpty
    /\ log' = Append(log, L("warning", "Empty or NaN SMILES at index", idx))
    /\ idx' = idx + 1
    /\ UNCHANGED <<pc, argc, input_df, faults, descriptors_data, valid_indices,
                   descriptors_df, artifacts, predictions, result_df, calls, exc,
                   stdout, exitCode>>

\* lines 40 and 60-62: the guard itself raises, before any append
RowNotString ==
    /\ InLoop
    /\ CurStripRaises
    /\ log' = Append(log, L("error", "Error processing SMILES at index", idx))
    /\ idx' = idx + 1
    /\ UNCHANGED <<pc, argc, input_df, faults, descriptors_data, valid_indices,
                   descriptors_df, artifacts, predictions, result_df, calls, exc,
                   stdout, exitCode>>

\* lines 44-48
RowInvalid ==
    /\ InLoop
    /\ ~CurStripRaises
    /\ ~CurEmpty
    /\ ~CurMol.ok
    /\ log' = Append(log, L("warning", "Invalid SMILES at index", idx))
    /\ idx' = idx + 1
    /\ UNCHANGED <<pc, argc, input_df, faults, descriptors_data, valid_indices,
                   descriptors_df, artifacts, predictions, result_df, calls, exc,
                   stdout, exitCode>>

\* lines 51-55 and 60-62: one of the first five descriptor calls raises, after
\* the appends before it have run
RowRaises ==
    /\ InLoop
    /\ ~CurStripRaises
    /\ ~CurEmpty
    /\ CurMol.ok
    /\ CurFault \in 1..5
    /\ descriptors_data' = AppendBefore(descriptors_data, CurMol, CurFault, CurFault)
    /\ log' = Append(log, L("error", "Error processing SMILES at index", idx))
    /\ idx' = idx + 1
    /\ UNCHANGED <<pc, argc, input_df, faults, valid_indices, descriptors_df,
                   artifacts, predictions, result_df, calls, exc, stdout, exitCode>>

\* lines 51-58 (and 21-23 when the toolkit raises inside get_aromatic_proportion)
RowRecorded ==
    /\ InLoop
    /\ ~CurStripRaises
    /\ ~CurEmpty
    /\ CurMol.ok
    /\ CurFault \notin 1..5
    /\ descriptors_data' = AppendBefore(descriptors_data, CurMol, CurFault, 7)
    /\ valid_indices' = Append(valid_indices, idx)
    /\ log' = IF CurFault = 6
              THEN Append(log, L("warning", "Error calculating aromatic proportion", 0))
              ELSE log
    /\ idx' = idx + 1
    /\ UNCHANGED <<pc, argc, input_df, faults, descriptors_df, artifacts,
                   predictions, result_df, calls, exc, stdout, exitCode>>

\* A table stage that never logs its count
RemovedLogSilent(lg, initial_count, final_count) == lg

\* lines 75-76
RemovedLog(lg, initial_count, final_count) ==
    IF final_count < initial_count
    THEN Append(lg, L("info", "Removed rows due to calculation errors",
                      initial_count - final_count))
    ELSE lg

\* lines 64-78: after the loop
FinishDescriptors ==
    /\ pc = "extract"
    /\ idx = NumRows
    /\ IF valid_indices = <<>>
       THEN /\ Raise("ValueError", "No valid SMILES strings found in input")
            /\ UNCHANGED <<descriptors_df, log>>
       ELSE IF ~SameLength(descriptors_data)
       THEN /\ Raise("ValueError", "All arrays must be of the same length")
            /\ UNCHANGED <<descriptors_df, log>>
       ELSE LET df == DataFrame(descriptors_data, valid_indices)
                initial_count == Len(df.index)
                dropped == DropNa(df)
                final_count == Len(dropped.index)
            IN  /\ descriptors_df' = dropped
                /\ log' = RemovedLog(log, initial_count, final_count)
                /\ pc' = "check_descriptors"
                /\ exc' = exc
    /\ UNCHANGED <<argc, input_df, faults, idx, descriptors_data, valid_indices,
                   artifacts, predictions, result_df, calls, stdout, exitCode>>

\* A main that goes on with an empty frame
CheckDescriptorsMissing ==
    /\ pc = "check_descriptors"
    /\ pc' = "load_models"
    /\ log' = Append(log, L("info", "Calculated descriptors for molecules",
                            Len(descriptors_df.index)))
    /\ UNCHANGED <<argc, input_df, faults, idx, descriptors_data, valid_indices,
                   descriptors_df, artifacts, predictions, result_df, calls, exc,
                   stdout, exitCode>>

\* main, lines 134-137
CheckDescriptors ==
    /\ pc = "check_descriptors"
    /\ IF Len(descriptors_df.index) = 0
       THEN /\ Raise("ValueError", "No valid molecular descriptors could be calculated")
            /\ log' = log
       ELSE /\ pc' = "load_models"
            /\ exc' = exc
            /\ log' = Append(log, L("info", "Calculated descriptors for molecules",
                                    Len(descriptors_df.index)))
    /\ UNCHANGED <<argc, input_df, faults, idx, descriptors_data, valid_indices,
                   descriptors_df, artifacts, predictions, result_df, calls,
                   stdout, exitCode>>

-----------------------------------------------------------------------------
(* load_models, the prediction, the join and the output.                    *)

\* A missing artifact reported with the kind of the other input errors
MissingArtifactAsValueError == "ValueError"

\* lines 87 and 89: the exception raised for an absent artifact
MissingArtifactError == "FileNotFoundError"

\* load_models, lines 80-99, called at line 140. Whether joblib.load succeeds
\* on the files that exist is read from the environment here.
LoadModels ==
    /\ pc = "load_models"
    /\ calls' = calls \cup {"load_models"}
    /\ \E ok \in BOOLEAN :
         LET m == artifacts.modelExists
             sc == artifacts.scalerExists
         IN
         /\ artifacts' = [artifacts EXCEPT !.checked = TRUE, !.loaded = m /\ sc /\ ok]
         /\ IF ~m
            THEN /\ Raise(MissingArtifactError, "Model file not found")
                 /\ log' = Append(log, L("error", "Error loading models", 0))
            ELSE IF ~sc
            THEN /\ Raise(MissingArtifactError, "Scaler file not found")
                 /\ log' = Append(log, L("error", "Error loading models", 0))
            ELSE IF ~ok
            THEN /\ Raise("UnpicklingError", "joblib.load failed")
                 /\ log' = Append(log, L("error", "Error loading models", 0))
            ELSE /\ pc' = "predict"
                 /\ exc' = exc
                 /\ log' = Append(log, L("info", "Successfully loaded model and scaler", 0))
    /\ UNCHANGED <<argc, input_df, faults, idx, descriptors_data, valid_indices,
                   descriptors_df, predictions, result_df, stdout, exitCode>>

\* main, lines 142-147
Predict ==
    /\ pc = "predict"
    /\ \E outcome \in {"ok", "transform raises", "predict raises"} :
         /\ calls' = calls \cup (IF outcome = "transform raises"
                                 THEN {"transform"} ELSE {"transform", "predict"})
         /\ IF outcome = "ok"
            THEN /\ predictions' =
                        [p \in 1..Len(descriptors_df.recs) |->
                            ModelPredict(ScalerTransform(descriptors_df.recs[p]))]
                 /\ pc' = "prepare"
                 /\ exc' = exc
            ELSE /\ Raise("ValueError", "Error during prediction")
                 /\ predictions' = predictions
    /\ UNCHANGED <<argc, input_df, faults, idx, descriptors_data, valid_indices,
                   descriptors_df, artifacts, result_df, stdout, exitCode, log>>

\* main, lines 149-151: the selection raises KeyError for a label that is
\* not in input_df's index, and the assignment raises ValueError when the
\* selection has another number of rows than there are predictions
PrepareResults ==
    /\ pc = "prepare"
    /\ IF LocRaises(input_df, descriptors_df.index)
       THEN /\ Raise("KeyError", "not in index")
            /\ result_df' = result_df
       ELSE LET selected == Loc(input_df, descriptors_df.index)
            IN  IF Len(selected.data) # Len(predictions)
                THEN /\ Raise("ValueError", "Length of values does not match length of index")
                     /\ result_df' = selected
                ELSE /\ result_df' = SetColumn(selected, PredCol, predictions)
                     /\ pc' = "output"
                     /\ exc' = exc
    /\ UNCHANGED <<argc, input_df, faults, idx, descriptors_data, valid_indices,
                   descriptors_df, artifacts, predictions, calls, stdout,
                   exitCode, log>>

OutArray(rows) == [kind |-> "array", rows |-> rows, error |-> "", type |-> ""]
OutError(msg, type) == [kind |-> "error", rows |-> <<>>, error |-> msg, type |-> type]

\* main, lines 153-157, and the normal end of the process
OutputJson ==
    /\ pc = "output"
    /\ stdout' = Append(stdout, OutArray(ToJson(result_df)))
    /\ log' = Append(log, L("info", "Successfully predicted solubility for molecules",
                            Len(result_df.data)))
    /\ exitCode' = <<0>>
    /\ pc' = "done"
    /\ UNCHANGED <<argc, input_df, faults, idx, descriptors_data, valid_indices,
                   descriptors_df, artifacts, predictions, result_df, calls, exc>>

\* A handler that prints the error and returns
ExceptHandlerNoExit ==
    /\ pc = "except"
    /\ log' = Append(log, L("error", "Prediction failed", 0))
    /\ stdout' = Append(stdout, OutError(exc.msg, exc.type))
    /\ exitCode' = <<0>>
    /\ pc' = "done"
    /\ UNCHANGED <<argc, input_df, faults, idx, descriptors_data, valid_indices,
                   descriptors_df, artifacts, predictions, result_df, calls, exc>>

\* main, lines 159-166
ExceptHandler ==
    /\ pc = "except"
    /\ log' = Append(log, L("error", "Prediction failed", 0))
    /\ stdout' = Append(stdout, OutError(exc.msg, exc.type))
    /\ exitCode' = <<1>>
    /\ pc' = "done"
    /\ UNCHANGED <<argc, input_df, faults, idx, descriptors_data, valid_indices,
                   descriptors_df, artifacts, predictions, result_df, calls, exc>>

Next ==
    \/ ValidateArgs
    \/ ValidateInputFile
    \/ ReadCsv
    \/ ValidateCsv
    \/ RowEmpty
    \/ RowNotString
    \/ RowInvalid
    \/ RowRaises
    \/ RowRecorded
    \/ FinishDescriptors
    \/ CheckDescriptors
    \/ LoadModels
    \/ Predict
    \/ PrepareResults
    \/ OutputJson
    \/ ExceptHandler

Spec == Init /\ [][Next]_vars

-----------------------------------------------------------------------------
(* What the claims speak of, stated on the input table alone.               *)

Range(seq) == {seq[k] : k \in 1..Len(seq)}

\* Row at position p (index p - 1) has a non-empty string that is a structure
RowParses(p) ==
    LET c == input_df.data[p]["SMILES"]
    IN  c.t = "str" /\ Strip(c.s) # "" /\ MolFromSmiles(Strip(c.s)).ok

\* Row p parses and every one of its six descriptor computations yields a value
RowSurvives(p) == RowParses(p) /\ faults[p] = 0

SurvivingIndices == SelectSeq(RangeIndex(NumRows), LAMBDA i : RowSurvives(i + 1))

\* Rows excluded by the loop of calculate_descriptors / by its dropna
ExtractDrops == Cardinality({p \in 1..NumRows : ~RowParses(p) \/ faults[p] \in 1..5})
TableDrops == Cardinality({p \in 1..NumRows : RowParses(p) /\ faults[p] = 6})

\* The six descriptor values of row p's own molecule
RecordOfRow(p) ==
    LET mol == MolFromSmiles(Strip(input_df.data[p]["SMILES"].s))
    IN  [f \in FieldSet |->
           CASE f = "MolWt" -> Some(mol.MolWt)
             [] f = "LogP" -> Some(mol.LogP)
             [] f = "NumRotatableBonds" -> Some(mol.NumRotatableBonds)
             [] f = "NumHDonors" -> Some(mol.NumHDonors)
             [] f = "NumHAcceptors" -> Some(mol.NumHAcceptors)
             [] OTHER -> IF mol.heavy = 0 THEN Some(0)
                         ELSE Some((mol.aromatic * 1000000) \div mol.heavy)]

Ended == pc = "done"
Succeeded == Ended /\ exitCode = <<0>>
Extracting == "calculate_descriptors" \in calls

\* calculate_descriptors has returned its frame
FrameReturned ==
    \/ pc \in {"check_descriptors", "load_models", "predict", "prepare", "output"}
    \/ Succeeded
    \/ /\ pc \in {"except", "done"}
       /\ exc.msg \in {"No valid molecular descriptors could be calculated",
                       "Model file not found", "Scaler file not found",
                       "joblib.load failed", "Error during prediction",
                       "not in index", "Length of values does not match length of index"}

\* calculate_descriptors has ended, by returning or by raising
ExtractionOver == Extracting /\ pc # "extract"

ArtifactAndPredictionMessages ==
    {"Model file not found", "Scaler file not found", "joblib.load failed",
     "Error during prediction"}

-----------------------------------------------------------------------------
\* The six-digit rendering of the prediction for row p's own descriptor record
PredictionOfRow(p) == Num(Round6(ModelPredict(ScalerTransform(RecordOfRow(p)))))

\* C1: on a successful run, for every surviving row index i there is an output
\* object built from input row i, carrying row i's SMILES and the prediction
\* the model gives for the descriptor record of row i's own molecule; and
\* every output object carries the prediction of the molecule it names.
C1_IndexAlignment ==
    Succeeded =>
        /\ \A p \in 1..NumRows :
              RowSurvives(p) =>
                 \E q \in 1..Len(stdout[1].rows) :
                    /\ stdout[1].rows[q]["SMILES"] = input_df.data[p]["SMILES"]
                    /\ stdout[1].rows[q][PredCol] = PredictionOfRow(p)
        /\ \A q \in 1..Len(stdout[1].rows) :
              \E p \in 1..NumRows :
                 /\ RowSurvives(p)
                 /\ stdout[1].rows[q]["SMILES"] = input_df.data[p]["SMILES"]
                 /\ stdout[1].rows[q][PredCol] = PredictionOfRow(p)

\* C2: every run prints exactly one thing, an array or an error object; the
\* exit code is 0 exactly with the array and 1 exactly with the error object;
\* nothing is printed before the run ends and a run that has not ended can
\* always take its next step.
C2_ExactlyOneOutput ==
    /\ Len(stdout) <= 1
    /\ Ended <=> exitCode # <<>>
    /\ ~Ended => stdout = <<>> /\ ENABLED Next
    /\ Ended =>
         /\ Len(stdout) = 1
         /\ stdout[1].kind \in {"array", "error"}
         /\ exitCode = <<0>> <=> stdout[1].kind = "array"
         /\ exitCode = <<1>> <=> stdout[1].kind = "error"

\* A run that ended with the error object after the artifacts were loaded
C2_Witness ==
    /\ Ended
    /\ artifacts.loaded
    /\ stdout = <<OutError("Error during prediction", "ValueError")>>
    /\ exitCode = <<1>>

\* C3: a failing row only excludes itself: once calculate_descriptors has
\* ended, if some row survives then it has returned a frame (it did not raise)
\* and the frame holds every surviving row.
C3_RowFailureIsolated ==
    (ExtractionOver /\ \E p \in 1..NumRows : RowSurvives(p)) =>
        /\ FrameReturned
        /\ \A p \in 1..NumRows : RowSurvives(p) => (p - 1) \in Range(descriptors_df.index)

\* C4: on a successful run the output has one object per surviving row index
\* and no other, in ascending index order; its length is the number of input
\* rows minus the rows dropped by the extraction loop and by the table filter.
C4_OutputRowsAreSurvivors ==
    Succeeded =>
        /\ Len(stdout[1].rows) = Len(SurvivingIndices)
        /\ \A q \in 1..Len(stdout[1].rows) :
              stdout[1].rows[q]["SMILES"] = input_df.data[SurvivingIndices[q] + 1]["SMILES"]
        /\ NumRows - Len(valid_indices) = ExtractDrops
        /\ Len(valid_indices) - Len(descriptors_df.index) = TableDrops
        /\ Len(stdout[1].rows) = NumRows - ExtractDrops - TableDrops

\* C5: on a successful run every column of the input table is in every output
\* object with the value of the corresponding input row (the q-th object is
\* that of the q-th surviving row).
C5_PassthroughPreserved ==
    Succeeded =>
        /\ Len(stdout[1].rows) = Len(SurvivingIndices)
        /\ \A q \in 1..Len(stdout[1].rows) :
              \A c \in input_df.columns :
                 stdout[1].rows[q][c] = input_df.data[SurvivingIndices[q] + 1][c]

\* C6: when the model file is absent, or the scaler file is absent, the run
\* ends with an error object as its only output and exit code 1, no array is
\* printed and nothing is loaded or predicted; once load_models has looked
\* for the files, that object is the FileNotFoundError naming the absent file.
C6_MissingArtifactIsFatal ==
    (Ended /\ ~(artifacts.modelExists /\ artifacts.scalerExists)) =>
        /\ Len(stdout) = 1
        /\ stdout[1].kind = "error"
        /\ exitCode = <<1>>
        /\ ~artifacts.loaded
        /\ calls \cap {"transform", "predict"} = {}
        /\ artifacts.checked =>
              stdout = <<OutError(IF ~artifacts.modelExists THEN "Model file not found"
                                  ELSE "Scaler file not found", "FileNotFoundError")>>

\* A run that ended with the model present and the scaler absent
C6_Witness ==
    /\ Ended
    /\ artifacts.checked
    /\ artifacts.modelExists
    /\ ~artifacts.scalerExists
    /\ stdout[1].type = "FileNotFoundError"

\* The table that was read lacks the SMILES column or has no data row
TableInvalid == input_df.columns # {} /\ ("SMILES" \notin input_df.columns \/ NumRows = 0)

\* C7 as amended: a table without the SMILES column, or with no data row, ends
\* the run with an error object of type ValueError and exit code 1, and
\* neither extraction nor artifact loading nor prediction is attempted.
C7_ValidationIsFatal ==
    (Ended /\ TableInvalid) =>
        /\ stdout = <<OutError(IF "SMILES" \notin input_df.columns
                               THEN "Input CSV must contain a 'SMILES' column"
                               ELSE "Input CSV is empty", "ValueError")>>
        /\ exitCode = <<1>>
        /\ calls = {}
        /\ ~artifacts.checked

\* A run on a table with the SMILES column and no data row has ended
C7_Witness ==
    /\ Ended
    /\ "SMILES" \in input_df.columns
    /\ NumRows = 0
    /\ stdout[1].error = "Input CSV is empty"

\* C7 as stated: the error object's type field is ValidationError.
C7_Original ==
    (Ended /\ TableInvalid) =>
        /\ Len(stdout) = 1
        /\ stdout[1].kind = "error"
        /\ stdout[1].type = "ValidationError"
        /\ exitCode = <<1>>
        /\ calls = {}
        /\ ~artifacts.checked

NoSurvivor == \A p \in 1..NumRows : ~RowSurvives(p)

\* C8 as amended: when no row survives, the run ends with an error object of
\* type ValueError whose message is none of the artifact or prediction
\* messages, the artifacts are neither loaded nor applied, and no array is
\* printed; the message is the no-valid-SMILES one when no row survives the
\* extraction loop and the no-valid-descriptors one when the frame is built
\* and its filter drops every row. No printed array is ever empty.
C8_ZeroSurvivorsIsFatal ==
    /\ (Ended /\ Extracting /\ NoSurvivor) =>
          /\ Len(stdout) = 1
          /\ stdout[1].kind = "error"
          /\ stdout[1].type = "ValueError"
          /\ stdout[1].error \notin ArtifactAndPredictionMessages
          /\ exitCode = <<1>>
          /\ ~artifacts.checked
          /\ calls = {"calculate_descriptors"}
          /\ valid_indices = <<>> =>
                stdout[1].error = "No valid SMILES strings found in input"
          /\ (valid_indices # <<>> /\ SameLength(descriptors_data)) =>
                stdout[1].error = "No valid molecular descriptors could be calculated"
    /\ \A k \in 1..Len(stdout) : stdout[k].kind = "array" => Len(stdout[k].rows) > 0

\* A run where rows survived the loop and the filter dropped them all
C8_Witness ==
    /\ Ended
    /\ Extracting
    /\ NoSurvivor
    /\ Len(valid_indices) = 2
    /\ descriptors_df.index = <<>>
    /\ stdout[1].error = "No valid molecular descriptors could be calculated"

\* C8 as stated: the error object's kind is NoValidInputError.
C8_Original ==
    (Ended /\ Extracting /\ NoSurvivor) =>
        /\ Len(stdout) = 1
        /\ stdout[1].kind = "error"
        /\ stdout[1].type = "NoValidInputError"
        /\ stdout[1].error \notin ArtifactAndPredictionMessages
        /\ exitCode = <<1>>
        /\ ~artifacts.checked

\* C9: the frame calculate_descriptors returns holds a row index iff the row
\* parsed and its six fields are defined, with the record of that row's own
\* molecule; a row whose aromatic proportion raised is in valid_indices and
\* not in the frame; a row with no heavy atom is in the frame with
\* aromatic proportion 0.
C9_NoMissingValues ==
    FrameReturned =>
        /\ descriptors_df.index = SurvivingIndices
        /\ \A q \in 1..Len(descriptors_df.index) :
              /\ Complete(descriptors_df.recs[q])
              /\ descriptors_df.recs[q] = RecordOfRow(descriptors_df.index[q] + 1)
        /\ \A p \in 1..NumRows :
              /\ (RowParses(p) /\ faults[p] = 6) =>
                    /\ (p - 1) \in Range(valid_indices)
                    /\ (p - 1) \notin Range(descriptors_df.index)
              /\ (RowSurvives(p) /\ MolFromSmiles(Strip(input_df.data[p]["SMILES"].s)).heavy = 0) =>
                    \E q \in 1..Len(descriptors_df.index) :
                       /\ descriptors_df.index[q] = p - 1
                       /\ descriptors_df.recs[q]["AromaticProportion"] = Some(0)

\* A returned frame for a table with a row whose aromatic proportion raised
\* followed by a row with no heavy atom
C9_Witness ==
    /\ pc = "check_descriptors"
    /\ NumRows >= 2
    /\ RowParses(1) /\ faults[1] = 6
    /\ input_df.data[2]["SMILES"] = Str("[H][H]")
    /\ descriptors_df.index = <<1>>

PerRowMessages ==
    {"Empty or NaN SMILES at index", "Invalid SMILES at index",
     "Error processing SMILES at index"}

LogOf(msgs) == SelectSeq(log, LAMBDA e : e.msg \in msgs)

\* C10 as amended: once the frame is returned, the log holds one warning or
\* error record per row the extraction loop dropped, naming the row's index,
\* in row order, and, exactly when the table filter dropped rows, one info
\* record with the number of rows it dropped.
C10_DropsLogged ==
    FrameReturned =>
        /\ LET perRow == LogOf(PerRowMessages)
           IN  /\ Len(perRow) = ExtractDrops
               /\ [k \in 1..Len(perRow) |-> perRow[k].n] =
                     SelectSeq(RangeIndex(NumRows),
                               LAMBDA i : ~RowParses(i + 1) \/ faults[i + 1] \in 1..5)
               /\ \A k \in 1..Len(perRow) : perRow[k].level \in {"warning", "error"}
        /\ LogOf({"Removed rows due to calculation errors"}) =
              IF TableDrops > 0
              THEN <<L("info", "Removed rows due to calculation errors", TableDrops)>>
              ELSE <<>>

\* A returned frame after two rows were dropped by the loop, one of them by a
\* raising descriptor call, and one by the filter
C10_Witness ==
    /\ pc = "check_descriptors"
    /\ ExtractDrops = 2
    /\ \E p \in 1..NumRows : RowParses(p) /\ faults[p] = 1
    /\ TableDrops = 1
    /\ Len(descriptors_df.index) = 0

\* The records of the code that report a number of dropped rows
DropCountMessages == {"Removed rows due to calculation errors"}

\* C10 as stated: once the frame is returned, the log holds a record with the
\* number of rows dropped by the table filter and a separate record with the
\* number of rows dropped by the extraction loop.
C10_Original ==
    FrameReturned =>
        \E k, j \in 1..Len(log) :
           /\ k # j
           /\ log[k].msg \in DropCountMessages
           /\ log[k].n = TableDrops
           /\ log[j].msg \in DropCountMessages
           /\ log[j].n = ExtractDrops

====
